---- MODULE Spec2Model ----
(***************************************************************************)
(* Model of the two Shiny applications of python_shiny_webapps/code:       *)
(*   earthquake_app.py  (USGS feed -> bounding box -> region filter -> map) *)
(*   sp500_app.py       (company table -> price history -> candlesticks)    *)
(* One process runs one application; `app` says which.                      *)
(*                                                                           *)
(* Strings that the code inspects character by character (place names,      *)
(* region selectors) are sequences of one-character strings.                *)
(* Magnitudes, coordinates and dates are integers.                          *)
(*                                                                           *)
(* Reactive framework semantics used (shiny.reactive):                      *)
(*  - a Calc / render function is memoized and re-executed only after one   *)
(*    of the reactive values it READ in its last execution was invalidated; *)
(*  - an exception raised in a Calc is cached like a value and re-raised    *)
(*    to its callers;                                                       *)
(*  - an input Value invalidates its readers when it is set to an object    *)
(*    that is not the very object it holds (identity, not equality);        *)
(*  - `name in input` reads no reactive value.                              *)
(*  - every inbound message is followed by one synchronous flush.           *)
(***************************************************************************)
EXTENDS Integers, Sequences, FiniteSets, TLC

VARIABLES
    app,            \* which program this process runs
    pc,             \* "import" -> "loaded" -> "session"
    response,       \* earthquake_app.py:28 the fetched feed, as rows
    earthquake_df,  \* earthquake_app.py:43,54 module-level dataset
    region_choices, \* earthquake_app.py:44
    sp500_df,       \* sp500_app.py:50
    input,          \* the session's input values
    bodyNight,      \* client side: body.classList contains 'night-mode'
    calc_a,         \* region_data   | stock_data
    calc_b,         \* theme_mode    | company_name
    out,            \* earthquake_map | stock_chart
    probe,          \* execution counters of the node bodies and of fetches
    evt,            \* kind of the last inbound event
    nEvents         \* number of inbound events so far

vars == <<app, pc, response, earthquake_df, region_choices, sp500_df, input,
          bodyNight, calc_a, calc_b, out, probe, evt, nEvents>>

(***************************************************************************)
(* Bounds                                                                   *)
(***************************************************************************)
MaxRecords == 2
MaxEvents == 2

(***************************************************************************)
(* Sequence helpers                                                         *)
(***************************************************************************)
RECURSIVE FilterSeq(_, _)
FilterSeq(s, keep) ==
    IF s = <<>> THEN <<>>
    ELSE IF keep[Head(s)] THEN <<Head(s)>> \o FilterSeq(Tail(s), keep)
         ELSE FilterSeq(Tail(s), keep)

SeqsUpTo(S, n) == UNION { [1..k -> S] : k \in 0..n }

(***************************************************************************)
(* earthquake_app.py : data source                                          *)
(***************************************************************************)
\* The rows the feed may contain (one per `feature`).
Features ==
    { [Place |-> <<"a", "B">>, Magnitude |-> 5,  Latitude |-> 5,  Longitude |-> -180, Depth |-> 10],
      [Place |-> <<"B", "a">>, Magnitude |-> -1, Latitude |-> 83, Longitude |-> -50,  Depth |-> 0],
      [Place |-> <<"b", "(">>, Magnitude |-> 0,  Latitude |-> 40, Longitude |-> -100, Depth |-> 3],
      [Place |-> <<"a">>,      Magnitude |-> 2,  Latitude |-> 84, Longitude |-> -50,  Depth |-> 7],
      [Place |-> <<"c">>,      Magnitude |-> 3,  Latitude |-> 4,  Longitude |-> -180, Depth |-> 1],
      [Place |-> <<"a", ".">>, Magnitude |-> 7,  Latitude |-> 40, Longitude |-> -49,  Depth |-> 5] }

get_earthquake_data == SeqsUpTo(Features, MaxRecords)

RegionChoices(df) == { df[i].Place : i \in 1..Len(df) }

north_america_bounds ==
    [min_latitude |-> 5, max_latitude |-> 83,
     min_longitude |-> -180, max_longitude |-> -50]

InBounds_Strict(r) ==
    /\ r.Latitude >= north_america_bounds.min_latitude
    /\ r.Latitude < north_america_bounds.max_latitude
    /\ r.Longitude >= north_america_bounds.min_longitude
    /\ r.Longitude <= north_america_bounds.max_longitude

InBounds(r) ==
    /\ r.Latitude >= north_america_bounds.min_latitude
    /\ r.Latitude <= north_america_bounds.max_latitude
    /\ r.Longitude >= north_america_bounds.min_longitude
    /\ r.Longitude <= north_america_bounds.max_longitude

BoundsFilter(df) == FilterSeq(df, [r \in Features |-> InBounds(r)])

(***************************************************************************)
(* earthquake_app.py : region_data                                          *)
(* Series.str.contains(region, case=False) compiles `region` as a regular   *)
(* expression with IGNORECASE and searches it in each Place.                *)
(***************************************************************************)
Lower(c) == CASE c = "A" -> "a" [] c = "B" -> "b" [] c = "C" -> "c" [] OTHER -> c

\* re.compile raises re.error for an unterminated group.
CompileFails(pat) == \E i \in 1..Len(pat) : pat[i] = "("

\* One pattern character against one text character, IGNORECASE.
CharMatches(p, c) == IF p = "." THEN TRUE ELSE Lower(p) = Lower(c)

\* regex.search: the pattern matches at some offset of the text.
ReSearch(pat, text) ==
    \E off \in 0..(Len(text) - Len(pat)) :
        \A j \in 1..Len(pat) : CharMatches(pat[j], text[off + j])

StrContains(df, region) == FilterSeq(df, [r \in Features |-> ReSearch(region, r.Place)])

\* region_data with the feed fetched again on every execution.
RegionDataBody_Refetch(df, region) ==
    IF region # <<>>
    THEN IF CompileFails(region)
         THEN [raised |-> TRUE, value |-> <<>>, fetches |-> 1]
         ELSE [raised |-> FALSE, value |-> StrContains(df, region), fetches |-> 1]
    ELSE [raised |-> FALSE, value |-> df, fetches |-> 1]

\* Result of the body of region_data: raised |-> TRUE stands for re.error,
\* fetches is the number of network requests the body made.
RegionDataBody(df, region) ==
    IF region # <<>>
    THEN IF CompileFails(region)
         THEN [raised |-> TRUE, value |-> <<>>, fetches |-> 0]
         ELSE [raised |-> FALSE, value |-> StrContains(df, region), fetches |-> 0]
    ELSE [raised |-> FALSE, value |-> df, fetches |-> 0]

(***************************************************************************)
(* earthquake_app.py : theme_mode and earthquake_map                        *)
(***************************************************************************)
\* Body of theme_mode; `reads` are the reactive values the execution read.
ThemeModeBody(inp) ==
    IF inp.theme_mode.set
    THEN [value |-> inp.theme_mode.val, reads |-> {"theme_mode"}]
    ELSE [value |-> "day", reads |-> {}]

HoverText(r) == [place |-> r.Place, magnitude |-> r.Magnitude, depth |-> r.Depth]

Marker(r) ==
    [lon |-> r.Longitude, lat |-> r.Latitude, text |-> HoverText(r),
     size |-> r.Magnitude * 5, color |-> r.Magnitude]

GeoLayout ==
    [scope |-> "north america", showland |-> TRUE,
     landcolor |-> "rgb(243, 243, 243)",
     subunitcolor |-> "rgb(217, 217, 217)",
     countrycolor |-> "rgb(217, 217, 217)"]

\* The figure built by earthquake_map from region_data() and theme_mode().
EarthquakeFigure(data, mode) ==
    [geometry |-> [i \in 1..Len(data) |-> Marker(data[i])],
     layout |-> GeoLayout]

NoChart == [geometry |-> <<>>, layout |-> [scope |-> "error"]]

(***************************************************************************)
(* Reactive nodes                                                           *)
(***************************************************************************)
StaleCalcA == [state |-> "stale", value |-> <<>>, deps |-> {}]
StaleCalcB == [state |-> "stale", value |-> "", deps |-> {}]
StaleOut == [state |-> "stale", chart |-> NoChart, deps |-> {}]
NoInput ==
    [region |-> [set |-> FALSE, val |-> <<>>],
     theme_mode |-> [set |-> FALSE, val |-> ""],
     ticker |-> [set |-> FALSE, val |-> ""],
     date_range |-> [set |-> FALSE, val |-> <<0, 0>>]]
NoProbe == [fetch |-> 0, a |-> 0, b |-> 0, render |-> 0]

\* A node is invalidated when a value it read is invalidated.
Invalidate(node, inv) ==
    IF node.deps \cap inv # {} THEN [node EXCEPT !.state = "stale"] ELSE node

\* Value._set: readers are invalidated unless the very same object is set.
SetInvalidates(old, new, sameObject) == ~(old.set /\ old.val = new /\ sameObject)

RunRegionData_Theme(inp) ==
    LET res == RegionDataBody(earthquake_df, inp.region.val)
    IN  [state |-> IF res.raised THEN "error" ELSE "fresh",
         value |-> res.value, deps |-> {"region", "theme_mode"}]

\* Execution of region_data.
RunRegionData(inp) ==
    LET res == RegionDataBody(earthquake_df, inp.region.val)
    IN  [state |-> IF res.raised THEN "error" ELSE "fresh",
         value |-> res.value, deps |-> {"region"}]

RunThemeMode(inp) ==
    LET res == ThemeModeBody(inp)
    IN  [state |-> "fresh", value |-> res.value, deps |-> res.reads]

\* One flush of the earthquake session after the inputs in `inv` were
\* invalidated: the output earthquake_map re-executes if it is stale, and
\* the Calcs it calls re-execute if they are stale.
EqFlush(inp, inv) ==
    LET a0 == Invalidate(calc_a, inv)
        b0 == Invalidate(calc_b, inv)
        o0 == Invalidate(out, (IF a0.state = "stale" THEN {"region_data"} ELSE {})
                               \cup (IF b0.state = "stale" THEN {"theme_mode"} ELSE {}))
        runA == a0.state = "stale"
        a1 == IF runA THEN RunRegionData(inp) ELSE a0
        runB == a1.state # "error" /\ b0.state = "stale"
        b1 == IF runB THEN RunThemeMode(inp) ELSE b0
    IN  IF o0.state = "stale"
        THEN /\ calc_a' = a1
             /\ calc_b' = b1
             /\ out' = IF a1.state = "error"
                       THEN [state |-> "error", chart |-> NoChart, deps |-> {"region_data"}]
                       ELSE [state |-> "fresh",
                             chart |-> EarthquakeFigure(a1.value, b1.value),
                             deps |-> {"region_data", "theme_mode"}]
             /\ probe' = [probe EXCEPT !.fetch = @ + (IF runA
                                                     THEN RegionDataBody(earthquake_df, inp.region.val).fetches
                                                     ELSE 0),
                                       !.a = @ + (IF runA THEN 1 ELSE 0),
                                       !.b = @ + (IF runB THEN 1 ELSE 0),
                                       !.render = @ + 1]
        ELSE /\ calc_a' = a0
             /\ calc_b' = b0
             /\ out' = o0
             /\ probe' = probe

(***************************************************************************)
(* earthquake_app.py : operations                                           *)
(***************************************************************************)
\* Module import, lines 43-59: fetch, region_choices, bounding-box filter.
EqLoad ==
    /\ app = "earthquake" /\ pc = "import"
    /\ \E rows \in get_earthquake_data :
         /\ response' = rows
         /\ region_choices' = RegionChoices(rows)
         /\ earthquake_df' = BoundsFilter(rows)
    /\ probe' = [probe EXCEPT !.fetch = @ + 1]
    /\ pc' = "loaded"
    /\ evt' = "load"
    /\ UNCHANGED <<app, sp500_df, input, bodyNight, calc_a, calc_b, out, nEvents>>

\* Values a client may deliver on the region input: every place of the feed
\* (the offered choices), the empty selection, and other strings.
Selectors ==
    { f.Place : f \in Features } \cup { <<>>, <<".">>, <<"(">>, <<"b">>, <<"z">> }

ThemeValues == {"day", "night", "sepia"}

\* The client's init message and the first flush.
EqSessionInit ==
    /\ app = "earthquake" /\ pc = "loaded"
    /\ \E r \in Selectors, hasTheme \in BOOLEAN, t \in ThemeValues :
         LET inp == [input EXCEPT !.region = [set |-> TRUE, val |-> r],
                                  !.theme_mode = IF hasTheme
                                                 THEN [set |-> TRUE, val |-> t]
                                                 ELSE @]
         IN  /\ input' = inp
             /\ EqFlush(inp, {"region", "theme_mode"})
    /\ pc' = "session"
    /\ evt' = "init"
    /\ UNCHANGED <<app, response, earthquake_df, region_choices, sp500_df,
                   bodyNight, nEvents>>

\* selector_changed: the region input is set, then one flush.
SelectorChanged ==
    /\ app = "earthquake" /\ pc = "session" /\ nEvents < MaxEvents
    /\ \E r \in Selectors, sameObject \in BOOLEAN :
         \* the empty string is a single object of the interpreter
         LET inp == [input EXCEPT !.region = [set |-> TRUE, val |-> r]]
         IN  /\ input' = inp
             /\ EqFlush(inp, IF SetInvalidates(input.region, r, sameObject \/ r = <<>>)
                             THEN {"region"} ELSE {})
    /\ evt' = "selector"
    /\ nEvents' = nEvents + 1
    /\ UNCHANGED <<app, pc, response, earthquake_df, region_choices, sp500_df, bodyNight>>

\* Server side of a theme message: the theme_mode input is set, one flush.
ThemeSet(t, sameObject) ==
    LET inp == [input EXCEPT !.theme_mode = [set |-> TRUE, val |-> t]]
    IN  /\ input' = inp
        /\ EqFlush(inp, IF SetInvalidates(input.theme_mode, t, sameObject)
                        THEN {"theme_mode"} ELSE {})

\* toggleMode(), lines 90-99, and the message it sends.
EqToggleMode ==
    /\ app = "earthquake" /\ pc = "session" /\ nEvents < MaxEvents
    /\ bodyNight' = ~bodyNight
    /\ ThemeSet(IF ~bodyNight THEN "night" ELSE "day", FALSE)
    /\ evt' = "theme"
    /\ nEvents' = nEvents + 1
    /\ UNCHANGED <<app, pc, response, earthquake_df, region_choices, sp500_df>>

\* theme_changed(new_value) delivered by any other client of the session.
ThemeChanged ==
    /\ app = "earthquake" /\ pc = "session" /\ nEvents < MaxEvents
    /\ \E t \in ThemeValues, sameObject \in BOOLEAN : ThemeSet(t, sameObject)
    /\ evt' = "theme"
    /\ nEvents' = nEvents + 1
    /\ UNCHANGED <<app, pc, response, earthquake_df, region_choices, sp500_df, bodyNight>>

(***************************************************************************)
(* sp500_app.py : data sources                                              *)
(***************************************************************************)
\* Rows the company table may contain.
Companies ==
    { [Symbol |-> "AAPL", Security |-> "Apple Inc."],
      [Symbol |-> "MSFT", Security |-> "Microsoft"],
      [Symbol |-> "BRK.B", Security |-> "Berkshire Hathaway"] }

get_sp500_companies == SeqsUpTo(Companies, MaxRecords)

\* Daily rows the price service holds (none for BRK.B nor for ZZZZ).
MarketRows ==
    { [Symbol |-> "AAPL", Date |-> 1, Open |-> 10, High |-> 12, Low |-> 9, Close |-> 11],
      [Symbol |-> "AAPL", Date |-> 2, Open |-> 11, High |-> 11, Low |-> 8, Close |-> 9],
      [Symbol |-> "MSFT", Date |-> 2, Open |-> 20, High |-> 25, Low |-> 20, Close |-> 24] }

RECURSIVE SortByDate(_)
SortByDate(S) ==
    IF S = {} THEN <<>>
    ELSE LET r == CHOOSE x \in S : \A y \in S : x.Date <= y.Date
         IN  <<r>> \o SortByDate(S \ {r})

\* yf.Ticker(ticker).history(start, end): rows with start <= Date < end.
History(ticker, range) ==
    SortByDate({ r \in MarketRows :
                   r.Symbol = ticker /\ range[1] <= r.Date /\ r.Date < range[2] })

Tickers == {"AAPL", "MSFT", "BRK.B", "ZZZZ"}
DateRanges == { <<1, 3>>, <<2, 3>>, <<3, 3>> }

(***************************************************************************)
(* sp500_app.py : stock_data, company_name, stock_chart                     *)
(***************************************************************************)
\* Body of company_name: raised |-> TRUE stands for IndexError of values[0].
CompanyNameBody(df, ticker) ==
    LET rows == FilterSeq(df, [c \in Companies |-> c.Symbol = ticker])
    IN  IF rows = <<>>
        THEN [raised |-> TRUE, value |-> ""]
        ELSE [raised |-> FALSE, value |-> rows[1].Security]

Candle(r) ==
    [x |-> r.Date, open |-> r.Open, high |-> r.High, low |-> r.Low, close |-> r.Close]

StockFigure(data, company, ticker) ==
    [geometry |-> [i \in 1..Len(data) |-> Candle(data[i])],
     layout |-> [title |-> <<"Stock Price for ", company, " - ", ticker>>,
                 yaxis_title |-> "Stock Price (USD)",
                 xaxis_title |-> "Date",
                 xaxis_rangeslider_visible |-> FALSE]]

\* Body of stock_data: one request to the price service.
StockDataBody(ticker, range) ==
    [value |-> History(ticker, range), fetches |-> 1]

RunStockData(inp) ==
    [state |-> "fresh",
     value |-> StockDataBody(inp.ticker.val, inp.date_range.val).value,
     deps |-> {"ticker", "date_range"}]

RunCompanyName(inp) ==
    LET res == CompanyNameBody(sp500_df, inp.ticker.val)
    IN  [state |-> IF res.raised THEN "error" ELSE "fresh",
         value |-> res.value, deps |-> {"ticker"}]

\* One flush of the S&P 500 session: stock_chart re-executes if stale; it
\* calls stock_data(), then company_name(), then reads input.ticker().
SpFlush(inp, inv) ==
    LET a0 == Invalidate(calc_a, inv)
        b0 == Invalidate(calc_b, inv)
        o0 == Invalidate(out, inv
                              \cup (IF a0.state = "stale" THEN {"stock_data"} ELSE {})
                              \cup (IF b0.state = "stale" THEN {"company_name"} ELSE {}))
        runA == a0.state = "stale"
        a1 == IF runA THEN RunStockData(inp) ELSE a0
        runB == b0.state = "stale"
        b1 == IF runB THEN RunCompanyName(inp) ELSE b0
    IN  IF o0.state = "stale"
        THEN /\ calc_a' = a1
             /\ calc_b' = b1
             /\ out' = IF b1.state = "error"
                       THEN [state |-> "error", chart |-> NoChart,
                             deps |-> {"stock_data", "company_name"}]
                       ELSE [state |-> "fresh",
                             chart |-> StockFigure(a1.value, b1.value, inp.ticker.val),
                             deps |-> {"stock_data", "company_name", "ticker"}]
             /\ probe' = [probe EXCEPT !.fetch = @ + (IF runA
                                                     THEN StockDataBody(inp.ticker.val, inp.date_range.val).fetches
                                                     ELSE 0),
                                       !.a = @ + (IF runA THEN 1 ELSE 0),
                                       !.b = @ + (IF runB THEN 1 ELSE 0),
                                       !.render = @ + 1]
        ELSE /\ calc_a' = a0
             /\ calc_b' = b0
             /\ out' = o0
             /\ probe' = probe

(***************************************************************************)
(* sp500_app.py : operations                                                *)
(***************************************************************************)
\* Module import, lines 50-54: the company table is fetched.
SpLoad ==
    /\ app = "sp500" /\ pc = "import"
    /\ \E rows \in get_sp500_companies : sp500_df' = rows
    /\ probe' = [probe EXCEPT !.fetch = @ + 1]
    /\ pc' = "loaded"
    /\ evt' = "load"
    /\ UNCHANGED <<app, response, earthquake_df, region_choices, input, bodyNight,
                   calc_a, calc_b, out, nEvents>>

\* The client's init message and the first flush.
SpSessionInit ==
    /\ app = "sp500" /\ pc = "loaded"
    /\ \E t \in Tickers, r \in DateRanges :
         LET inp == [input EXCEPT !.ticker = [set |-> TRUE, val |-> t],
                                  !.date_range = [set |-> TRUE, val |-> r]]
         IN  /\ input' = inp
             /\ SpFlush(inp, {"ticker", "date_range"})
    /\ pc' = "session"
    /\ evt' = "init"
    /\ UNCHANGED <<app, response, earthquake_df, region_choices, sp500_df,
                   bodyNight, nEvents>>

\* The ticker input is set, then one flush.
TickerChanged ==
    /\ app = "sp500" /\ pc = "session" /\ nEvents < MaxEvents
    /\ \E t \in Tickers, sameObject \in BOOLEAN :
         LET inp == [input EXCEPT !.ticker = [set |-> TRUE, val |-> t]]
         IN  /\ input' = inp
             /\ SpFlush(inp, IF SetInvalidates(input.ticker, t, sameObject)
                             THEN {"ticker"} ELSE {})
    /\ evt' = "selector"
    /\ nEvents' = nEvents + 1
    /\ UNCHANGED <<app, pc, response, earthquake_df, region_choices, sp500_df, bodyNight>>

\* The date_range input is set, then one flush.
DateRangeChanged ==
    /\ app = "sp500" /\ pc = "session" /\ nEvents < MaxEvents
    /\ \E r \in DateRanges, sameObject \in BOOLEAN :
         LET inp == [input EXCEPT !.date_range = [set |-> TRUE, val |-> r]]
         IN  /\ input' = inp
             /\ SpFlush(inp, IF SetInvalidates(input.date_range, r, sameObject)
                             THEN {"date_range"} ELSE {})
    /\ evt' = "range"
    /\ nEvents' = nEvents + 1
    /\ UNCHANGED <<app, pc, response, earthquake_df, region_choices, sp500_df, bodyNight>>

\* toggleMode(), lines 89-100: toggles the body class; nothing is sent.
SpToggleMode ==
    /\ app = "sp500" /\ pc = "session" /\ nEvents < MaxEvents
    /\ bodyNight' = ~bodyNight
    /\ evt' = "theme"
    /\ nEvents' = nEvents + 1
    /\ UNCHANGED <<app, pc, response, earthquake_df, region_choices, sp500_df,
                   input, calc_a, calc_b, out, probe>>

(***************************************************************************)
(* Specification                                                            *)
(***************************************************************************)
Init ==
    /\ app \in {"earthquake", "sp500"}
    /\ pc = "import"
    /\ response = <<>>
    /\ earthquake_df = <<>>
    /\ region_choices = {}
    /\ sp500_df = <<>>
    /\ input = NoInput
    /\ bodyNight = FALSE
    /\ calc_a = StaleCalcA
    /\ calc_b = StaleCalcB
    /\ out = StaleOut
    /\ probe = NoProbe
    /\ evt = "none"
    /\ nEvents = 0

Next ==
    \/ EqLoad
    \/ EqSessionInit
    \/ SelectorChanged
    \/ EqToggleMode
    \/ ThemeChanged
    \/ SpLoad
    \/ SpSessionInit
    \/ TickerChanged
    \/ DateRangeChanged
    \/ SpToggleMode

Spec == Init /\ [][Next]_vars

(***************************************************************************)
(* Properties                                                               *)
(***************************************************************************)
InSession == pc = "session"
Eq == app = "earthquake"
Sp == app = "sp500"

\* The theme the user currently sees selected.
CurrentTheme ==
    IF Eq THEN (IF input.theme_mode.set THEN input.theme_mode.val ELSE "day")
    ELSE (IF bodyNight THEN "night" ELSE "day")

\* C1: in the earthquake app a theme event (the selector is not written)
\* does not re-execute the filter of region_data and leaves the memoized
\* DerivedView as it was; at most theme_mode and earthquake_map re-execute,
\* each once.
C1_ThemeKeepsRegionData ==
    [][ (Eq /\ InSession /\ evt' = "theme")
        => /\ probe'.a = probe.a
           /\ calc_a' = calc_a
           /\ probe'.b <= probe.b + 1
           /\ probe'.render <= probe.render + 1 ]_vars

\* A theme event re-executed theme_mode and earthquake_map while region_data
\* still holds the value of its single execution.
C1_Witness ==
    /\ Eq /\ InSession /\ evt = "theme"
    /\ probe.a = 1 /\ probe.b = 2 /\ probe.render = 2
    /\ calc_a.state = "fresh" /\ calc_a.value # <<>>
    /\ calc_b.value = "night"

\* C2: for every selector string, region_data returns exactly the baseline
\* records, in order, whose Place contains the selector as a literal
\* case-insensitive substring (all of them for the empty selector).
C2_LiteralSubstring ==
    LET LiteralContains(s, text) ==
            \E off \in 0..(Len(text) - Len(s)) :
                \A j \in 1..Len(s) : Lower(s[j]) = Lower(text[off + j])
    IN  (Eq /\ InSession)
        => /\ calc_a.state = "fresh"
           /\ calc_a.value =
                FilterSeq(earthquake_df,
                          [r \in Features |-> LiteralContains(input.region.val, r.Place)])

\* C3: when the theme goes from day to night and the selector is not
\* written, the next chart has the same geometry and a different style block.
C3_NightChangesStyle ==
    [][ (InSession /\ out.state = "fresh" /\ evt' = "theme"
         /\ CurrentTheme = "day" /\ CurrentTheme' = "night")
        => /\ out'.state = "fresh"
           /\ out'.chart.geometry = out.chart.geometry
           /\ out'.chart.layout # out.chart.layout ]_vars

\* The selector of the S&P 500 session resolves to no record.
SpNoRecords ==
    \/ \A i \in 1..Len(sp500_df) : sp500_df[i].Symbol # input.ticker.val
    \/ History(input.ticker.val, input.date_range.val) = <<>>

\* C4: a selector that resolves to zero records yields, without error, a
\* chart with empty geometry and its layout present.
C4_EmptyButValid ==
    InSession
    => /\ (Eq /\ calc_a.state = "fresh" /\ calc_a.value = <<>>)
          => (out.state = "fresh" /\ out.chart.geometry = <<>>
              /\ out.chart.layout = GeoLayout)
       /\ (Sp /\ SpNoRecords)
          => (out.state = "fresh" /\ out.chart.geometry = <<>>)

\* C5: the value of theme_mode is always day or night.
C5_ThemeIsDayOrNight ==
    (Eq /\ calc_b.state = "fresh") => calc_b.value \in {"day", "night"}

\* C6: an event that writes the value an input already holds invalidates
\* nothing: no node re-executes and all memoized values stay.
C6_SameValueNoInvalidation ==
    [][ (InSession /\ evt' \in {"selector", "range", "theme"} /\ input' = input)
        => /\ probe' = probe
           /\ calc_a' = calc_a /\ calc_b' = calc_b /\ out' = out ]_vars

C8_MarkerSizePositive ==
    (Eq /\ out.state = "fresh")
    => \A i \in 1..Len(out.chart.geometry) : out.chart.geometry[i].size > 0

\* C9: the load-time filter keeps exactly the rows with latitude in [5, 83]
\* and longitude in [-180, -50], in their original order, and filtering its
\* output again changes nothing.
C9_BoundsFilter ==
    LET RECURSIVE IsSubseq(_, _)
        IsSubseq(s, t) ==
            IF s = <<>> THEN TRUE
            ELSE IF t = <<>> THEN FALSE
            ELSE IF Head(s) = Head(t) THEN IsSubseq(Tail(s), Tail(t))
                 ELSE IsSubseq(s, Tail(t))
        Occurrences(s, x) == Cardinality({ i \in 1..Len(s) : s[i] = x })
    IN  (Eq /\ pc # "import")
        => /\ IsSubseq(earthquake_df, response)
           /\ \A f \in Features :
                Occurrences(earthquake_df, f) =
                    IF /\ 5 <= f.Latitude /\ f.Latitude <= 83
                       /\ -180 <= f.Longitude /\ f.Longitude <= -50
                    THEN Occurrences(response, f) ELSE 0
           /\ BoundsFilter(earthquake_df) = earthquake_df

\* A feed of which a row on the edge of the box was kept and one dropped.
C9_Witness ==
    /\ Eq /\ pc # "import"
    /\ Len(response) = 2 /\ Len(earthquake_df) = 1
    /\ earthquake_df[1].Latitude = 83 /\ earthquake_df[1].Longitude = -50
    /\ response[2] = earthquake_df[1]

\* C10: every selectable region yields a non-empty DerivedView.
C10_ChoicesMatchBaseline ==
    (Eq /\ InSession /\ calc_a.state = "fresh"
        /\ input.region.val \in region_choices)
    => calc_a.value # <<>>

====
